---- MODULE Spec2Model ----
(***************************************************************************)
(* Model of MinQueue (src/src/heapify.ts): a fixed-capacity, array-backed  *)
(* binary min-heap over two index-aligned Uint32Array backing stores, with *)
(* lazy deletion of the root after pop.                                    *)
(***************************************************************************)
EXTENDS Integers, Sequences, FiniteSets

\* ---------------------------------------------------------------- bounds
MaxCapacity == 3
MaxKey == 1
MaxPriority == 1
\* longest initial batch handed to the constructor in SpecNew
MaxBatch == 4
\* largest capacity in SpecWrap
WrapCapacity == 2
\* capacity and largest priority in SpecDump
DumpCapacity == 5
DumpPriority == 5
\* largest capacity and largest priority in SpecSteps
StepCapacity == 4
StepPriority == 1
\* number of values an element of a backing store can hold.  Uint32Array (the
\* default backing array type) holds 2^32 of them; the model narrows the
\* element so that a value past the range is within the model checker's integers
Width == 16

\* ------------------------------------------------------------- constants
ROOT_INDEX == 1

\* the value of `undefined` (pop on an empty queue); never a stored key
Undefined == 0 - 1

\* variant: the store saturates at its largest value, as a clamped array does
ToUint32Clamped(v) == IF v >= Width THEN Width - 1 ELSE v

\* a typed-array store keeps the value modulo the element's range
ToUint32(v) == v % Width

\* arguments <<key, priority>> handed to push / pushPop / popPush: the in-range
\* pairs, and one pair whose key and priority are both past the element's range
Inputs == ((0..MaxKey) \X (0..MaxPriority)) \cup {<<Width, Width + 1>>}

\* arguments handed to the constructor
RECURSIVE SeqsUpTo(_, _)
SeqsUpTo(S, n) ==
    IF n = 0 THEN {<< >>}
    ELSE LET shorter == SeqsUpTo(S, n - 1)
         IN  shorter \cup {Append(s, x) : s \in {t \in shorter : Len(t) = n - 1}, x \in S}

CapacityInputs == 1..MaxCapacity
KeyBatches == SeqsUpTo(0..MaxKey, MaxCapacity + 1)
PriorityBatches == SeqsUpTo(0..MaxPriority, MaxCapacity + 1)

VARIABLES
    phase,              \* "args": not constructed; "ready": object exists; "failed": constructor threw
    capacity,           \* this._capacity
    keys,               \* this._keys        (function 0..capacity -> 0..Width-1)
    priorities,         \* this._priorities  (function 0..capacity -> 0..Width-1)
    length,             \* this.length
    hasPoppedElement,   \* this._hasPoppedElement
    op,                 \* the last call made
    arg,                \* its arguments: <<key, priority>>, <<capacity, keys, priorities>> or << >>
    ret,                \* its return value where that is a number (Undefined when it returns none)
    text,               \* its return value where that is a text: the numbers the dump prints
    err,                \* TRUE iff it threw
    pc,                 \* where the call in progress stands: "idle" between calls, else the loop it is in
    at,                 \* the local `index` of bubbleUp / bubbleDown
    held,               \* their locals <<key, priority>>
    loop,               \* the constructor's loop variable i
    accessed,           \* the slots the last step read or wrote, as <<role, position>>
    begun               \* the object as the last call found it

\* the variables of a call in progress; they stay put where calls are taken whole
stepVars == <<pc, at, held, loop, accessed, begun>>

vars == <<phase, capacity, keys, priorities, length, hasPoppedElement, op, arg, ret, text, err,
          pc, at, held, loop, accessed, begun>>

\* the object's fields as one value
This == [capacity |-> capacity, keys |-> keys, priorities |-> priorities,
         length |-> length, hasPoppedElement |-> hasPoppedElement]

\* ------------------------------------------------------------ primitives
RECURSIVE bubbleUpLoop(_, _, _, _)
bubbleUpLoop(q, index, key, priority) ==
    LET parentIndex == index \div 2
    IN  IF index > ROOT_INDEX /\ ~(q.priorities[parentIndex] <= priority)
        THEN bubbleUpLoop([q EXCEPT !.keys[index] = q.keys[parentIndex],
                                    !.priorities[index] = q.priorities[parentIndex]],
                          parentIndex, key, priority)
        ELSE [q EXCEPT !.keys[index] = key, !.priorities[index] = priority]

\* variant: the pushed item is left where it was appended
bubbleUpNone(q, index) == q

bubbleUp(q, index) == bubbleUpLoop(q, index, q.keys[index], q.priorities[index])

\* variant: the right child is never looked at
pickChildLeftOnly(q, index) == index * 2

\* the child bubbleDown compares against: left, or right when it exists and is strictly smaller
pickChild(q, index) ==
    LET left == index * 2
        right == left + 1
        lastIndex == q.length + ROOT_INDEX
    IN  IF right < lastIndex /\ q.priorities[right] < q.priorities[left]
        THEN right
        ELSE left

RECURSIVE bubbleDownLoop(_, _, _, _)
bubbleDownLoop(q, index, key, priority) ==
    LET halfLength == ROOT_INDEX + (q.length \div 2)
        childIndex == pickChild(q, index)
    IN  IF index < halfLength /\ ~(q.priorities[childIndex] >= priority)
        THEN bubbleDownLoop([q EXCEPT !.keys[index] = q.keys[childIndex],
                                      !.priorities[index] = q.priorities[childIndex]],
                            childIndex, key, priority)
        ELSE [q EXCEPT !.keys[index] = key, !.priorities[index] = priority]

bubbleDown(q, index) == bubbleDownLoop(q, index, q.keys[index], q.priorities[index])

\* variant: the element one slot before the last live one is moved to the root
removePoppedElementOffByOne(q) ==
    IF q.hasPoppedElement
    THEN LET moved == [q EXCEPT !.keys[ROOT_INDEX] = q.keys[q.length],
                                !.priorities[ROOT_INDEX] = q.priorities[q.length]]
         IN  [bubbleDown(moved, ROOT_INDEX) EXCEPT !.hasPoppedElement = FALSE]
    ELSE q

\* variant: the last element's key is moved into the root without its priority
removePoppedElementKeyOnly(q) ==
    IF q.hasPoppedElement
    THEN LET moved == [q EXCEPT !.keys[ROOT_INDEX] = q.keys[q.length + ROOT_INDEX]]
         IN  [bubbleDown(moved, ROOT_INDEX) EXCEPT !.hasPoppedElement = FALSE]
    ELSE q

\* variant: the flag is cleared but the removed element stays in the root slot
removePoppedElementNoMove(q) == [q EXCEPT !.hasPoppedElement = FALSE]

removePoppedElement(q) ==
    IF q.hasPoppedElement
    THEN LET moved == [q EXCEPT !.keys[ROOT_INDEX] = q.keys[q.length + ROOT_INDEX],
                                !.priorities[ROOT_INDEX] = q.priorities[q.length + ROOT_INDEX]]
         IN  [bubbleDown(moved, ROOT_INDEX) EXCEPT !.hasPoppedElement = FALSE]
    ELSE q

\* ------------------------------------------------------------ operations
\* each returns [q |-> the object afterwards, ret |-> the value returned, err |-> it threw]
\* variant: the capacity test is off by one and also refuses the last free slot
pushFullEarly(q, key, priority) ==
    IF q.length >= q.capacity - 1
    THEN [q |-> q, ret |-> Undefined, err |-> TRUE]
    ELSE IF q.hasPoppedElement
    THEN LET placed == [q EXCEPT !.keys[ROOT_INDEX] = ToUint32(key),
                                 !.priorities[ROOT_INDEX] = ToUint32(priority),
                                 !.length = q.length + 1]
         IN  [q |-> [bubbleDown(placed, ROOT_INDEX) EXCEPT !.hasPoppedElement = FALSE],
              ret |-> Undefined, err |-> FALSE]
    ELSE LET pos == q.length + ROOT_INDEX
             placed == [q EXCEPT !.keys[pos] = ToUint32(key),
                                 !.priorities[pos] = ToUint32(priority),
                                 !.length = q.length + 1]
         IN  [q |-> bubbleUp(placed, pos), ret |-> Undefined, err |-> FALSE]

\* variant: a push into the vacated root slot forgets to count the new element
pushNoCount(q, key, priority) ==
    IF q.length = q.capacity
    THEN [q |-> q, ret |-> Undefined, err |-> TRUE]
    ELSE IF q.hasPoppedElement
    THEN LET placed == [q EXCEPT !.keys[ROOT_INDEX] = ToUint32(key),
                                 !.priorities[ROOT_INDEX] = ToUint32(priority)]
         IN  [q |-> [bubbleDown(placed, ROOT_INDEX) EXCEPT !.hasPoppedElement = FALSE],
              ret |-> Undefined, err |-> FALSE]
    ELSE LET pos == q.length + ROOT_INDEX
             placed == [q EXCEPT !.keys[pos] = ToUint32(key),
                                 !.priorities[pos] = ToUint32(priority),
                                 !.length = q.length + 1]
         IN  [q |-> bubbleUp(placed, pos), ret |-> Undefined, err |-> FALSE]

\* variant: a push first resolves the pending deletion, then always appends
pushResolveFirst(q, key, priority) ==
    IF q.length = q.capacity
    THEN [q |-> q, ret |-> Undefined, err |-> TRUE]
    ELSE LET repaired == removePoppedElement(q)
             pos == repaired.length + ROOT_INDEX
             placed == [repaired EXCEPT !.keys[pos] = ToUint32(key),
                                        !.priorities[pos] = ToUint32(priority),
                                        !.length = repaired.length + 1]
         IN  [q |-> bubbleUp(placed, pos), ret |-> Undefined, err |-> FALSE]

\* variant: a push into a full queue is dropped without an error
pushSilentWhenFull(q, key, priority) ==
    IF q.length = q.capacity
    THEN [q |-> q, ret |-> Undefined, err |-> FALSE]
    ELSE IF q.hasPoppedElement
    THEN LET placed == [q EXCEPT !.keys[ROOT_INDEX] = ToUint32(key),
                                 !.priorities[ROOT_INDEX] = ToUint32(priority),
                                 !.length = q.length + 1]
         IN  [q |-> [bubbleDown(placed, ROOT_INDEX) EXCEPT !.hasPoppedElement = FALSE],
              ret |-> Undefined, err |-> FALSE]
    ELSE LET pos == q.length + ROOT_INDEX
             placed == [q EXCEPT !.keys[pos] = ToUint32(key),
                                 !.priorities[pos] = ToUint32(priority),
                                 !.length = q.length + 1]
         IN  [q |-> bubbleUp(placed, pos), ret |-> Undefined, err |-> FALSE]

push(q, key, priority) ==
    IF q.length = q.capacity
    THEN [q |-> q, ret |-> Undefined, err |-> TRUE]
    ELSE IF q.hasPoppedElement
    THEN LET placed == [q EXCEPT !.keys[ROOT_INDEX] = ToUint32(key),
                                 !.priorities[ROOT_INDEX] = ToUint32(priority),
                                 !.length = q.length + 1]
         IN  [q |-> [bubbleDown(placed, ROOT_INDEX) EXCEPT !.hasPoppedElement = FALSE],
              ret |-> Undefined, err |-> FALSE]
    ELSE LET pos == q.length + ROOT_INDEX
             placed == [q EXCEPT !.keys[pos] = ToUint32(key),
                                 !.priorities[pos] = ToUint32(priority),
                                 !.length = q.length + 1]
         IN  [q |-> bubbleUp(placed, pos), ret |-> Undefined, err |-> FALSE]

\* variant: the pending deletion is resolved before the emptiness test
popResolveFirst(q) ==
    LET repaired == removePoppedElement(q)
    IN  IF repaired.length = 0
        THEN [q |-> repaired, ret |-> Undefined, err |-> FALSE]
        ELSE [q |-> [repaired EXCEPT !.length = repaired.length - 1, !.hasPoppedElement = TRUE],
              ret |-> repaired.keys[ROOT_INDEX], err |-> FALSE]

\* variant: an empty queue hands out the root slot instead of undefined
popEmptyReturnsRoot(q) ==
    IF q.length = 0
    THEN [q |-> q, ret |-> q.keys[ROOT_INDEX], err |-> FALSE]
    ELSE LET repaired == removePoppedElement(q)
         IN  [q |-> [repaired EXCEPT !.length = repaired.length - 1, !.hasPoppedElement = TRUE],
              ret |-> repaired.keys[ROOT_INDEX], err |-> FALSE]

pop(q) ==
    IF q.length = 0
    THEN [q |-> q, ret |-> Undefined, err |-> FALSE]
    ELSE LET repaired == removePoppedElement(q)
         IN  [q |-> [repaired EXCEPT !.length = repaired.length - 1, !.hasPoppedElement = TRUE],
              ret |-> repaired.keys[ROOT_INDEX], err |-> FALSE]

peekPriority(q) ==
    LET repaired == removePoppedElement(q)
    IN  [q |-> repaired, ret |-> repaired.priorities[ROOT_INDEX], err |-> FALSE]

peek(q) ==
    LET repaired == removePoppedElement(q)
    IN  [q |-> repaired, ret |-> repaired.keys[ROOT_INDEX], err |-> FALSE]

\* variant: clear also wipes the root slot
clearWipesRoot(q) ==
    [q |-> [q EXCEPT !.length = 0, !.hasPoppedElement = FALSE,
                     !.keys[ROOT_INDEX] = 0, !.priorities[ROOT_INDEX] = 0],
     ret |-> Undefined, err |-> FALSE]

clear(q) ==
    [q |-> [q EXCEPT !.length = 0, !.hasPoppedElement = FALSE], ret |-> Undefined, err |-> FALSE]

\* variant: the listing is taken without resolving the pending deletion
dumpRawPrioritiesUnresolved(q) ==
    IF q.length - ROOT_INDEX < 0
    THEN [q |-> q, ret |-> Undefined, err |-> TRUE]
    ELSE [q |-> q,
          ret |-> [i \in 1..q.length |-> q.priorities[(i - 1) + ROOT_INDEX]],
          err |-> FALSE]

\* the text "[p1 p2 ...]" is kept as the sequence of the numbers it prints;
\* Array(n) with n < 0 throws a RangeError, after the pending deletion was resolved
dumpRawPriorities(q) ==
    LET repaired == removePoppedElement(q)
    IN  IF repaired.length - ROOT_INDEX < 0
        THEN [q |-> repaired, ret |-> Undefined, err |-> TRUE]
        ELSE [q |-> repaired,
              ret |-> [i \in 1..repaired.length |-> repaired.priorities[(i - 1) + ROOT_INDEX]],
              err |-> FALSE]

\* ------------------------------------------------- compound operations
\* pushPop: nothing is inserted when the queue is empty or the new priority is
\* strictly below the current minimum priority (peekPriority); otherwise push, then pop
pushPop(q, key, priority) ==
    IF q.length = 0
    THEN [q |-> q, ret |-> key, err |-> FALSE]
    ELSE LET min == peekPriority(q)
         IN  IF priority < min.ret
             THEN [q |-> min.q, ret |-> key, err |-> FALSE]
             ELSE LET pushed == push(min.q, key, priority)
                  IN  IF pushed.err THEN pushed ELSE pop(pushed.q)

\* popPush: pop (keeping its result), then push unconditionally
popPush(q, key, priority) ==
    LET popped == pop(q)
        pushed == push(popped.q, key, priority)
    IN  IF pushed.err THEN pushed ELSE [q |-> pushed.q, ret |-> popped.ret, err |-> FALSE]

\* ----------------------------------------------------------- constructor
\* variant: the bulk build stops before the root
RECURSIVE heapifySkipRoot(_, _)
heapifySkipRoot(q, i) ==
    IF i > ROOT_INDEX THEN heapifySkipRoot(bubbleDown(q, i), i - 1) ELSE q

RECURSIVE heapify(_, _)
heapify(q, i) ==
    IF i >= ROOT_INDEX THEN heapify(bubbleDown(q, i), i - 1) ELSE q

\* variant: a batch that exactly fills the capacity is refused
constructorThrowsAtCapacity(cap, ks, ps) == Len(ks) # Len(ps) \/ cap <= Len(ks)

constructorThrows(cap, ks, ps) == Len(ks) # Len(ps) \/ cap < Len(ks)

constructor(cap, ks, ps) ==
    LET copied == [capacity |-> cap,
                   keys |-> [i \in 0..cap |-> IF i >= ROOT_INDEX /\ i - ROOT_INDEX < Len(ks)
                                              THEN ToUint32(ks[i - ROOT_INDEX + 1]) ELSE 0],
                   priorities |-> [i \in 0..cap |-> IF i >= ROOT_INDEX /\ i - ROOT_INDEX < Len(ks)
                                                    THEN ToUint32(ps[i - ROOT_INDEX + 1]) ELSE 0],
                   length |-> Len(ks),
                   hasPoppedElement |-> FALSE]
    IN  heapify(copied, Len(ks) \div 2)

\* --------------------------------------------------------------- actions
Outcome(r, name, args) ==
    /\ capacity' = r.q.capacity
    /\ keys' = r.q.keys
    /\ priorities' = r.q.priorities
    /\ length' = r.q.length
    /\ hasPoppedElement' = r.q.hasPoppedElement
    /\ op' = name
    /\ arg' = args
    /\ ret' = IF name = "dump" THEN Undefined ELSE r.ret
    /\ text' = IF name = "dump" /\ ~r.err THEN r.ret ELSE << >>
    /\ err' = r.err
    /\ UNCHANGED phase

Install(r, name, args) == Outcome(r, name, args) /\ UNCHANGED stepVars

Init ==
    /\ phase = "args"
    /\ capacity = 0
    /\ keys = [i \in 0..0 |-> 0]
    /\ priorities = [i \in 0..0 |-> 0]
    /\ length = 0
    /\ hasPoppedElement = FALSE
    /\ op = "none"
    /\ arg = << >>
    /\ ret = Undefined
    /\ text = << >>
    /\ err = FALSE
    /\ pc = "idle"
    /\ at = 0
    /\ held = <<0, 0>>
    /\ loop = 0
    /\ accessed = {}
    /\ begun = This

NewWith(caps, keyBatches, priorityBatches) ==
    /\ phase = "args"
    /\ UNCHANGED stepVars
    /\ \E cap \in caps, ks \in keyBatches, ps \in priorityBatches :
        /\ op' = "new"
        /\ arg' = <<cap, ks, ps>>
        /\ ret' = Undefined
        /\ text' = << >>
        /\ IF constructorThrows(cap, ks, ps)
           THEN /\ phase' = "failed"
                /\ err' = TRUE
                /\ UNCHANGED <<capacity, keys, priorities, length, hasPoppedElement>>
           ELSE LET q == constructor(cap, ks, ps)
                IN  /\ phase' = "ready"
                    /\ err' = FALSE
                    /\ capacity' = q.capacity
                    /\ keys' = q.keys
                    /\ priorities' = q.priorities
                    /\ length' = q.length
                    /\ hasPoppedElement' = q.hasPoppedElement

New == NewWith(CapacityInputs, KeyBatches, PriorityBatches)

Push ==
    /\ phase = "ready"
    /\ \E item \in Inputs : Install(push(This, item[1], item[2]), "push", item)

Pop ==
    /\ phase = "ready"
    /\ Install(pop(This), "pop", << >>)

Peek ==
    /\ phase = "ready"
    /\ Install(peek(This), "peek", << >>)

PeekPriority ==
    /\ phase = "ready"
    /\ Install(peekPriority(This), "peekPriority", << >>)

Clear ==
    /\ phase = "ready"
    /\ Install(clear(This), "clear", << >>)

Dump ==
    /\ phase = "ready"
    /\ Install(dumpRawPriorities(This), "dump", << >>)

PushPop ==
    /\ phase = "ready"
    /\ \E item \in Inputs : Install(pushPop(This, item[1], item[2]), "pushPop", item)

PopPush ==
    /\ phase = "ready"
    /\ \E item \in Inputs : Install(popPush(This, item[1], item[2]), "popPush", item)

Next == New \/ Push \/ Pop \/ Peek \/ PeekPriority \/ Clear \/ PushPop \/ PopPush

Spec == Init /\ [][Next]_vars

\* one compound operation at a time, next to the operations it is made of
NextPushPop == New \/ Push \/ Pop \/ Peek \/ PushPop

SpecPushPop == Init /\ [][NextPushPop]_vars

NextPopPush == New \/ Push \/ Pop \/ Peek \/ PopPush

SpecPopPush == Init /\ [][NextPopPush]_vars

\* the operations the source file implements, the dump among them
NextCore == New \/ Push \/ Pop \/ Peek \/ PeekPriority \/ Clear \/ Dump

SpecCore == Init /\ [][NextCore]_vars

\* construction alone, over longer batches, followed by reads of the root
NewBulk == NewWith(1..MaxBatch, SeqsUpTo(0..MaxKey, MaxBatch + 1), SeqsUpTo(0..MaxPriority, MaxBatch + 1))

NextNew == NewBulk \/ Peek \/ PeekPriority

SpecNew == Init /\ [][NextNew]_vars

\* ------------------------------------------------------------ vocabulary
\* positions holding the live elements: after pop the root slot still holds the
\* removed element and the live ones sit at 2..length+1 until the deletion is resolved
LivePositions(q) ==
    IF q.hasPoppedElement THEN (ROOT_INDEX + 1)..(q.length + ROOT_INDEX)
    ELSE ROOT_INDEX..q.length

PairAt(q, i) == <<q.keys[i], q.priorities[i]>>

\* the multiset of live <<key, priority>> pairs, as pair |-> number of occurrences
LiveBag(q) ==
    [pair \in {PairAt(q, i) : i \in LivePositions(q)} |->
        Cardinality({i \in LivePositions(q) : PairAt(q, i) = pair})]

\* the multiset of the pairs <<ks[i], ps[i]>> as stored
BatchBag(ks, ps) ==
    [pair \in {<<ToUint32(ks[i]), ToUint32(ps[i])>> : i \in 1..Len(ks)} |->
        Cardinality({i \in 1..Len(ks) : <<ToUint32(ks[i]), ToUint32(ps[i])>> = pair})]

IsMinLive(q, priority) ==
    /\ \E i \in LivePositions(q) : q.priorities[i] = priority
    /\ \A i \in LivePositions(q) : priority <= q.priorities[i]

HeapOrdered(q) ==
    \A i \in 2..q.length : q.priorities[i \div 2] <= q.priorities[i]

\* the object after the step
ThisNext == [capacity |-> capacity', keys |-> keys', priorities |-> priorities',
             length |-> length', hasPoppedElement |-> hasPoppedElement']

\* ---------------------------------------------------------------- claims
\* C1: pop on a non-empty queue returns the key of a live element whose stored
\* priority is minimal among the live elements (the pair it leaves in the root
\* slot), and a pop that directly follows a pop returns an element whose
\* priority is not below the previous one's.
PopReturnsMinimum ==
    [][op' = "pop" /\ length > 0 =>
          /\ ret' = keys'[ROOT_INDEX]
          /\ IsMinLive(This, priorities'[ROOT_INDEX])
          /\ \E i \in LivePositions(This) : PairAt(This, i) = <<ret', priorities'[ROOT_INDEX]>>
          /\ (op = "pop" /\ ret # Undefined) => priorities[ROOT_INDEX] <= priorities'[ROOT_INDEX]
      ]_vars

\* a second pop in a row, taken while two live elements of different priority remain
PopReturnsMinimumWitness ==
    /\ op = "pop" /\ ret # Undefined
    /\ hasPoppedElement /\ length = 1
    /\ priorities[ROOT_INDEX] < priorities[2]

\* C2: after a completed push, pop, pushPop or popPush every position
\* 2..length holds a priority not below its parent's, also while a deletion is pending.
HeapInvariant ==
    (phase = "ready" /\ op \in {"push", "pop", "pushPop", "popPush"}) => HeapOrdered(This)

\* a pending deletion over a heap of two remaining positions
HeapInvariantWitness ==
    /\ op = "pop" /\ hasPoppedElement /\ length = 2
    /\ priorities[ROOT_INDEX] < priorities[2]

\* C3: push at length = capacity throws and changes nothing of the object;
\* push at length < capacity does not throw.
PushCapacityError ==
    [][op' = "push" =>
          IF length = capacity THEN err' /\ ThisNext = This ELSE ~err'
      ]_vars

PushCapacityErrorWitness ==
    op = "push" /\ err /\ length = capacity /\ capacity > 1

\* C4: pop at length = 0, with or without a pending deletion, returns undefined,
\* does not throw and changes nothing of the object.
PopOnEmpty ==
    [][op' = "pop" /\ length = 0 =>
          ret' = Undefined /\ ~err' /\ ThisNext = This
      ]_vars

\* the empty pop taken while a deletion is pending
PopOnEmptyWitness ==
    op = "pop" /\ ret = Undefined /\ length = 0 /\ hasPoppedElement

\* C5: 0 <= length <= capacity in every state of a constructed queue; a push
\* that does not throw adds exactly 1 to length, a pop at length > 0 takes
\* exactly 1 away, peek and peekPriority leave it alone.
SizeAccounting ==
    /\ [](phase = "ready" => 0 <= length /\ length <= capacity)
    /\ [][/\ (op' = "push" /\ ~err') => length' = length + 1
          /\ (op' = "pop" /\ length > 0) => length' = length - 1
          /\ op' \in {"peek", "peekPriority"} => length' = length
         ]_vars

\* a push that filled a queue of capacity 3
SizeAccountingWitness ==
    op = "push" /\ ~err /\ length = 3 /\ capacity = 3

\* C6: on a non-empty queue, pending deletion or not, peek returns the key and
\* peekPriority the priority of the pair in the repaired root slot, a live pair
\* of minimal priority; neither changes length or the multiset of live pairs,
\* and a peek or peekPriority that directly follows one reads the same pair.
PeekReadsMinimum ==
    [][op' \in {"peek", "peekPriority"} /\ length > 0 =>
          /\ length' = length
          /\ LiveBag(ThisNext) = LiveBag(This)
          /\ ret' = IF op' = "peek" THEN keys'[ROOT_INDEX] ELSE priorities'[ROOT_INDEX]
          /\ IsMinLive(This, priorities'[ROOT_INDEX])
          /\ \E i \in LivePositions(This) : PairAt(This, i) = PairAt(ThisNext, ROOT_INDEX)
          /\ op \in {"peek", "peekPriority"} => PairAt(ThisNext, ROOT_INDEX) = PairAt(This, ROOT_INDEX)
      ]_vars

\* a peek over two live elements of different priority
PeekReadsMinimumWitness ==
    /\ op = "peek" /\ length = 2 /\ ~hasPoppedElement
    /\ ret = keys[ROOT_INDEX] /\ priorities[ROOT_INDEX] < priorities[2]

\* C7: the constructor throws iff the two batches differ in length or are longer
\* than the capacity; otherwise the object exists (a batch of exactly capacity
\* elements and the empty batch included).
ConstructionErrors ==
    op = "new" =>
        /\ err <=> (Len(arg[2]) # Len(arg[3]) \/ Len(arg[2]) > arg[1])
        /\ phase = IF err THEN "failed" ELSE "ready"

\* a batch of exactly capacity elements was accepted
ConstructionErrorsWitness ==
    op = "new" /\ ~err /\ phase = "ready" /\ Len(arg[2]) = arg[1] /\ arg[1] >= 2

\* C8: a successful construction from a batch of n pairs leaves length n, no
\* pending deletion, positions 1..n heap-ordered and holding exactly the
\* batch's multiset of pairs, and peek returns the key of a pair of minimal priority.
BulkConstruction ==
    (op = "new" /\ ~err) =>
        /\ length = Len(arg[2])
        /\ capacity = arg[1]
        /\ ~hasPoppedElement
        /\ HeapOrdered(This)
        /\ LiveBag(This) = BatchBag(arg[2], arg[3])
        /\ length > 0 =>
              \E i \in 1..Len(arg[2]) :
                  /\ peek(This).ret = ToUint32(arg[2][i])
                  /\ \A j \in 1..Len(arg[3]) : ToUint32(arg[3][i]) <= ToUint32(arg[3][j])

\* the only minimum of the batch was at its last, fourth position
BulkConstructionWitness ==
    /\ op = "new" /\ ~err /\ arg[3] = <<1, 1, 1, 0>> /\ arg[2] = <<0, 0, 0, 1>>
    /\ PairAt(This, ROOT_INDEX) = <<1, 0>>

\* C9: pushPop(k, p) at length = 0 returns k and leaves length 0; pushPop(k, p)
\* with p strictly below the minimal live priority returns k and leaves length
\* and the multiset of live pairs as they were.
PushPopShortCircuit ==
    [][op' = "pushPop" =>
          /\ length = 0 => (ret' = arg'[1] /\ ~err' /\ length' = 0)
          /\ (length > 0 /\ \A i \in LivePositions(This) : arg'[2] < priorities[i]) =>
                (ret' = arg'[1] /\ ~err' /\ length' = length /\ LiveBag(ThisNext) = LiveBag(This))
      ]_vars

\* pushPop returned its own key over a queue whose minimum is above the priority given
PushPopShortCircuitWitness ==
    /\ op = "pushPop" /\ ret = arg[1] /\ ~err
    /\ length = 2 /\ ~hasPoppedElement /\ arg[2] < priorities[ROOT_INDEX]

\* C10 as stated: pushPop at length = capacity throws and leaves length unchanged.
PushPopThrowsAtCapacity ==
    [][op' = "pushPop" /\ length = capacity => err' /\ length' = length]_vars

\* C10 as amended: pushPop(k, p) at length = capacity leaves length unchanged;
\* it throws when p is not strictly below the minimal live priority, and
\* returns k without throwing when it is.
PushPopAtCapacity ==
    [][op' = "pushPop" /\ length = capacity =>
          /\ length' = length
          /\ IF \A i \in LivePositions(This) : arg'[2] < priorities[i]
             THEN ~err' /\ ret' = arg'[1]
             ELSE err'
      ]_vars

\* pushPop threw on a full queue
PushPopAtCapacityWitness ==
    op = "pushPop" /\ err /\ length = capacity /\ capacity = 2

\* ------------------------------------------------------ literal sequences
\* the calls push(key, priority); pop() made one after the other
pushThenPop(q, key, priority) ==
    LET pushed == push(q, key, priority)
    IN  IF pushed.err THEN pushed ELSE pop(pushed.q)

PriorityAt(q, i) == q.priorities[i]

\* a and b hold the same multiset of f-values at their live positions
CountLive(q, f(_, _), x) == Cardinality({j \in LivePositions(q) : f(q, j) = x})

SameLive(a, b, f(_, _)) ==
    /\ a.length = b.length
    /\ \A i \in LivePositions(a) : CountLive(a, f, f(a, i)) = CountLive(b, f, f(a, i))

popThenPush(q, key, priority) ==
    LET popped == pop(q)
        pushed == push(popped.q, key, priority)
    IN  [q |-> pushed.q, ret |-> popped.ret, err |-> pushed.err]

PopPushNeverFails ==
    [][op' = "popPush" /\ length > 0 =>
          \A new \in {<<ToUint32(arg'[1]), ToUint32(arg'[2])>>} :
              /\ ~err'
              /\ length' = length
              /\ ~hasPoppedElement'
              /\ HeapOrdered(ThisNext)
              /\ \E i \in LivePositions(This) :
                    /\ keys[i] = ret'
                    /\ IsMinLive(This, priorities[i])
                    /\ CountLive(ThisNext, PairAt, new) =
                          CountLive(This, PairAt, new) + 1 - (IF PairAt(This, i) = new THEN 1 ELSE 0)
      ]_vars

\* popPush on a full queue of capacity 2 put a pair of the lower priority at the root
PopPushNeverFailsWitness ==
    /\ op = "popPush" /\ ~err /\ ret # Undefined
    /\ length = 2 /\ capacity = 2
    /\ arg = <<1, 0>> /\ PairAt(This, ROOT_INDEX) = <<1, 0>> /\ priorities[2] = 1

\* ------------------------------------------------ values past the range
\* keys and priorities at and around the end of the element's range
WideKeys == {1, Width - 1, Width}
WidePriorities == {1, Width - 1, Width, Width + 1}

NewWide == NewWith(1..WrapCapacity, SeqsUpTo(WideKeys, 1), SeqsUpTo(WidePriorities, 1))

PushWide ==
    /\ phase = "ready"
    /\ \E k \in WideKeys, p \in WidePriorities : Install(push(This, k, p), "push", <<k, p>>)

NextWrap == NewWide \/ PushWide \/ Pop \/ Peek \/ PeekPriority \/ Clear

SpecWrap == Init /\ [][NextWrap]_vars

\* C14: push stores the key and the priority modulo the element's range with
\* no error; a pop right after a push into an empty queue returns the key
\* modulo the range (the largest value unchanged, the range itself as 0), a
\* peekPriority there the priority modulo the range; and the minimum read after
\* a push is never above the pushed priority taken modulo the range.
StoredModuloRange ==
    [][/\ (op' = "push" /\ ~err') =>
             \A new \in {<<arg'[1] % Width, arg'[2] % Width>>} :
                 CountLive(ThisNext, PairAt, new) = CountLive(This, PairAt, new) + 1
       /\ (op = "push" /\ ~err /\ length = 1 /\ op' = "pop") =>
             /\ ret' = arg[1] % Width
             /\ arg[1] = Width - 1 => ret' = Width - 1
             /\ arg[1] = Width => ret' = 0
       /\ (op = "push" /\ ~err /\ length = 1 /\ op' = "peekPriority") =>
             ret' = arg[2] % Width
       /\ (op = "push" /\ ~err /\ op' = "peekPriority") =>
             /\ ret' <= arg[2] % Width
             /\ IsMinLive(This, ret')
      ]_vars

\* a priority equal to the range was pushed after the largest priority and sits at the root as 0
StoredModuloRangeWitness ==
    /\ op = "push" /\ ~err /\ arg = <<Width, Width>>
    /\ length = 2 /\ PairAt(This, ROOT_INDEX) = <<0, 0>> /\ priorities[2] = Width - 1

\* ------------------------------------------------------------- the dump
\* what the dump prints for a queue of length 0, according to the specification
EmptyMarker == "(empty queue)"

\* C15 as stated: the dump of a queue of length 0 raises no error and yields
\* the empty-queue marker.
DumpOfEmptyQueue ==
    [][op' = "dump" /\ length = 0 => ~err' /\ text' = EmptyMarker]_vars

\* queues built from a batch of up to DumpCapacity priorities, then popped and dumped
DumpKeyBatches == {[i \in 1..n |-> i % 2] : n \in 0..DumpCapacity}

NewDump == NewWith({DumpCapacity}, DumpKeyBatches, SeqsUpTo(1..DumpPriority, DumpCapacity + 1))

NextDump == NewDump \/ Pop \/ Dump

SpecDump == Init /\ [][NextDump]_vars

\* the priorities at positions 1..Len(layout) are the given ones
LayoutIs(layout) == \A i \in 1..Len(layout) : priorities[i] = layout[i]

\* C16: a dump of a non-empty queue raises no error and lists the priorities
\* at positions 1..length of the queue left after resolving the pending
\* deletion, in array order: the listing is heap ordered, holds each live
\* priority as often as the queue did and so leaves out the popped root, and
\* it equals the layout got by moving the last live element into the root and
\* bubbling it down; [1 2 3 4] popped dumps as [2 4 3], [1 3 2 4] as [2 3 4],
\* and [1 2 3 5 4] as [2 4 3 5].
DumpListsLivePositions ==
    [][op' = "dump" /\ length > 0 =>
          /\ ~err'
          /\ Len(text') = length /\ length' = length /\ ~hasPoppedElement'
          /\ \A i \in 1..length : text'[i] = priorities'[i]
          /\ \A i \in 2..length : text'[i \div 2] <= text'[i]
          /\ SameLive(This, ThisNext, PriorityAt)
          /\ ThisNext = removePoppedElement(This)
          /\ (hasPoppedElement /\ length = 3 /\ LayoutIs(<<1, 2, 3, 4>>)) => text' = <<2, 4, 3>>
          /\ (hasPoppedElement /\ length = 3 /\ LayoutIs(<<1, 3, 2, 4>>)) => text' = <<2, 3, 4>>
          /\ (hasPoppedElement /\ length = 4 /\ LayoutIs(<<1, 2, 3, 5, 4>>)) => text' = <<2, 4, 3, 5>>
      ]_vars

\* the third example: the last element went down one level only
DumpListsLivePositionsWitness ==
    /\ op = "dump" /\ ~err /\ text = <<2, 4, 3, 5>> /\ length = 4

\* ------------------------------------------------------ lazy deletion
\* position i is position j or is above it in the tree
RECURSIVE IsAncestor(_, _)
IsAncestor(i, j) ==
    IF i < ROOT_INDEX \/ j < i THEN FALSE
    ELSE IF i = j THEN TRUE
    ELSE IsAncestor(i, j \div 2)

\* new is old after the pair was written into the root and went down one path:
\* the pair rests at some j, each slot above j holds what its child on the
\* path held, and every other slot is untouched
SiftedDown(old, new, pair) ==
    \E j \in ROOT_INDEX..new.length :
        /\ PairAt(new, j) = pair
        /\ \A i \in 0..new.capacity : i # j =>
              PairAt(new, i) =
                  IF IsAncestor(i, j)
                  THEN PairAt(old, IF IsAncestor(2 * i, j) THEN 2 * i ELSE 2 * i + 1)
                  ELSE PairAt(old, i)

\* new is old after the pair was written at pos and went up towards the root:
\* the pair rests at some j at or above pos, each slot below j down to pos
\* holds what its parent held, and every other slot is untouched
SiftedUp(old, new, pos, pair) ==
    \E j \in ROOT_INDEX..pos :
        /\ IsAncestor(j, pos)
        /\ PairAt(new, j) = pair
        /\ \A i \in 0..new.capacity : i # j =>
              PairAt(new, i) =
                  IF IsAncestor(j, i) /\ IsAncestor(i, pos)
                  THEN PairAt(old, i \div 2)
                  ELSE PairAt(old, i)

\* C17: a pop of a non-empty queue ends with the pending-deletion flag set;
\* push, peek, peekPriority, dump and clear end with it clear; a push made
\* while the flag is set puts the pair into the root slot and moves it down
\* one path, touching no other slot; a push made while it is clear puts the
\* pair at position length + 1 and moves it up towards the root, touching no
\* other slot.
LazyDeletion ==
    [][/\ (op' = "pop" /\ length > 0) => hasPoppedElement'
       /\ op' \in {"push", "peek", "peekPriority", "dump", "clear"} => ~hasPoppedElement'
       /\ (op' = "push" /\ ~err') =>
             \A new \in {<<arg'[1] % Width, arg'[2] % Width>>} :
                 /\ length' = length + 1
                 /\ IF hasPoppedElement
                    THEN SiftedDown(This, ThisNext, new)
                    ELSE SiftedUp(This, ThisNext, length + ROOT_INDEX, new)
      ]_vars

\* a pushed pair went from the root down to position 2, past a smaller priority
LazyDeletionWitness ==
    /\ op = "push" /\ ~err /\ arg = <<1, 1>> /\ length = 3 /\ ~hasPoppedElement
    /\ PairAt(This, 1) = <<0, 0>> /\ PairAt(This, 2) = <<1, 1>> /\ PairAt(This, 3) = <<0, 1>>

\* --------------------------------------------------------------- clear
\* q with every slot that holds no live element set to 0, as in a new store
Norm(q) ==
    [q EXCEPT !.keys = [i \in 0..q.capacity |-> IF i \in LivePositions(q) THEN q.keys[i] ELSE 0],
              !.priorities = [i \in 0..q.capacity |->
                                 IF i \in LivePositions(q) THEN q.priorities[i] ELSE 0]]

\* two outcomes that differ at most in slots holding no live element
SameOutcome(a, b) == a.err = b.err /\ a.ret = b.ret /\ Norm(a.q) = Norm(b.q)

\* every operation does to q what it does to q with its stale slots set to 0;
\* peek and peekPriority are asked only of a non-empty queue
StaleSlotsUnobservable(q) ==
    \A n \in {Norm(q)} :
        /\ SameOutcome(pop(q), pop(n))
        /\ SameOutcome(dumpRawPriorities(q), dumpRawPriorities(n))
        /\ SameOutcome(clear(q), clear(n))
        /\ q.length > 0 => /\ SameOutcome(peek(q), peek(n))
                           /\ SameOutcome(peekPriority(q), peekPriority(n))
        /\ \A item \in Inputs : SameOutcome(push(q, item[1], item[2]), push(n, item[1], item[2]))

\* C18: from every state of a constructed queue, clear raises no error, sets
\* the length to 0 and the pending-deletion flag to false and leaves the
\* capacity and both stores as they were; the cleared queue differs from a
\* newly constructed empty one of that capacity in stale slots only; and in
\* every state, each of push, pop, dump, clear, and on a non-empty queue peek
\* and peekPriority, returns or throws the same and leaves the same live
\* content as it does with all stale slots set to 0, so no sequence of them
\* tells the cleared queue from a new one.
ClearActsAsNew ==
    phase = "ready" =>
        /\ \A cleared \in {clear(This)} :
              /\ ~cleared.err
              /\ cleared.q.length = 0 /\ ~cleared.q.hasPoppedElement
              /\ cleared.q.capacity = capacity
              /\ cleared.q.keys = keys /\ cleared.q.priorities = priorities
              /\ Norm(cleared.q) = constructor(capacity, << >>, << >>)
        /\ StaleSlotsUnobservable(This)

\* a cleared queue whose root slot still holds the pair pushed before
ClearActsAsNewWitness ==
    /\ op = "clear" /\ ~err /\ length = 0 /\ ~hasPoppedElement
    /\ PairAt(This, ROOT_INDEX) = <<1, 1>>

\* ------------------------------------------------ calls taken step by step
\* a read past the end of a typed array gives undefined, a write there does
\* nothing, and undefined is stored as 0
Read(a, i) == IF i \in DOMAIN a THEN a[i] ELSE Undefined
Write(a, i, v) == IF i \in DOMAIN a THEN [a EXCEPT ![i] = IF v = Undefined THEN 0 ELSE ToUint32(v)] ELSE a

\* variant: the last level is visited too
halfLengthWhole(q) == ROOT_INDEX + q.length

halfLength(q) == ROOT_INDEX + (q.length \div 2)

\* variant: the parent is moved down but index stays where it is
bubbleUpIterStuck(q, index, key, priority) ==
    IF index > ROOT_INDEX
    THEN LET parentIndex == index \div 2
         IN  IF Read(q.priorities, parentIndex) <= priority
             THEN [q |-> q, index |-> index, again |-> FALSE,
                   touched |-> {<<"parent", parentIndex>>}]
             ELSE [q |-> [q EXCEPT !.keys = Write(q.keys, index, Read(q.keys, parentIndex)),
                                   !.priorities = Write(q.priorities, index,
                                                        Read(q.priorities, parentIndex))],
                   index |-> index, again |-> TRUE,
                   touched |-> {<<"parent", parentIndex>>, <<"item", index>>}]
    ELSE [q |-> q, index |-> index, again |-> FALSE, touched |-> {}]

\* one test of bubbleUp's loop condition and, where it holds, one pass of the
\* body: again tells whether the loop goes on, touched the slots read or written
bubbleUpIter(q, index, key, priority) ==
    IF index > ROOT_INDEX
    THEN LET parentIndex == index \div 2
         IN  IF Read(q.priorities, parentIndex) <= priority
             THEN [q |-> q, index |-> index, again |-> FALSE,
                   touched |-> {<<"parent", parentIndex>>}]
             ELSE [q |-> [q EXCEPT !.keys = Write(q.keys, index, Read(q.keys, parentIndex)),
                                   !.priorities = Write(q.priorities, index,
                                                        Read(q.priorities, parentIndex))],
                   index |-> parentIndex, again |-> TRUE,
                   touched |-> {<<"parent", parentIndex>>, <<"item", index>>}]
    ELSE [q |-> q, index |-> index, again |-> FALSE, touched |-> {}]

\* the same for bubbleDown
bubbleDownIter(q, index, key, priority) ==
    IF index < halfLength(q)
    THEN LET left == 2 * index
             right == left + 1
             lastIndex == q.length + ROOT_INDEX
             useRight == right < lastIndex /\ Read(q.priorities, right) < Read(q.priorities, left)
             childIndex == IF useRight THEN right ELSE left
             childPriority == Read(q.priorities, childIndex)
             reads == {<<"child", left>>} \cup (IF right < lastIndex THEN {<<"child", right>>} ELSE {})
         IN  IF childPriority >= priority
             THEN [q |-> q, index |-> index, again |-> FALSE, touched |-> reads]
             ELSE [q |-> [q EXCEPT !.keys = Write(q.keys, index, Read(q.keys, childIndex)),
                                   !.priorities = Write(q.priorities, index, childPriority)],
                   index |-> childIndex, again |-> TRUE,
                   touched |-> reads \cup {<<"item", index>>}]
    ELSE [q |-> q, index |-> index, again |-> FALSE, touched |-> {}]

\* the write that ends bubbleUp and bubbleDown
Settle(q, index, item) ==
    [q EXCEPT !.keys = Write(q.keys, index, item[1]),
              !.priorities = Write(q.priorities, index, item[2])]

\* the constructor up to its heapify loop
copyBatch(cap, ks, ps) ==
    [capacity |-> cap,
     keys |-> [i \in 0..cap |-> IF i >= ROOT_INDEX /\ i - ROOT_INDEX < Len(ks)
                                THEN ToUint32(ks[i - ROOT_INDEX + 1]) ELSE 0],
     priorities |-> [i \in 0..cap |-> IF i >= ROOT_INDEX /\ i - ROOT_INDEX < Len(ks)
                                      THEN ToUint32(ps[i - ROOT_INDEX + 1]) ELSE 0],
     length |-> Len(ks),
     hasPoppedElement |-> FALSE]

\* what pop, peek, peekPriority and the dump do once no deletion is pending
Finish(name, q) ==
    CASE name = "pop" -> pop(q)
      [] name = "peek" -> peek(q)
      [] name = "peekPriority" -> peekPriority(q)
      [] name = "dump" -> dumpRawPriorities(q)

FinishReads(name, q) ==
    IF name = "dump" THEN {<<"list", i + ROOT_INDEX>> : i \in 0..(q.length - 1)}
    ELSE IF name = "pop" /\ q.length = 0 THEN {}
    ELSE {<<"root", ROOT_INDEX>>}

StepInputs == {<<p + 1, p>> : p \in 0..StepPriority}

SetThis(q) ==
    /\ capacity' = q.capacity
    /\ keys' = q.keys
    /\ priorities' = q.priorities
    /\ length' = q.length
    /\ hasPoppedElement' = q.hasPoppedElement

\* a call starts and will run a loop
Begin(name, args) ==
    /\ op' = name
    /\ arg' = args
    /\ ret' = Undefined
    /\ text' = << >>
    /\ err' = FALSE
    /\ begun' = This
    /\ UNCHANGED <<phase, loop>>

\* bubbleUp(where) or bubbleDown(where) is entered on q and reads its item
Enter(q, where, label, touched) ==
    /\ SetThis(q)
    /\ pc' = label
    /\ at' = where
    /\ held' = <<Read(q.keys, where), Read(q.priorities, where)>>
    /\ accessed' = touched \cup {<<"item", where>>}

\* a call returns or throws: r is its outcome
Return(r, name, args, touched) ==
    /\ Outcome(r, name, args)
    /\ pc' = "idle"
    /\ accessed' = touched
    /\ UNCHANGED <<at, held, loop>>

\* removePoppedElement with a deletion pending, up to the entry into bubbleDown
Resolve ==
    Enter([This EXCEPT !.keys = Write(keys, ROOT_INDEX, Read(keys, length + ROOT_INDEX)),
                       !.priorities = Write(priorities, ROOT_INDEX,
                                            Read(priorities, length + ROOT_INDEX))],
          ROOT_INDEX, "bubbleDown",
          {<<"last", length + ROOT_INDEX>>, <<"root", ROOT_INDEX>>})

StepNew ==
    /\ phase = "args" /\ pc = "idle"
    /\ \E cap \in 1..StepCapacity, batch \in SeqsUpTo(StepInputs, StepCapacity) :
        LET ks == [i \in 1..Len(batch) |-> batch[i][1]]
            ps == [i \in 1..Len(batch) |-> batch[i][2]]
        IN  /\ op' = "new"
            /\ arg' = <<cap, ks, ps>>
            /\ ret' = Undefined
            /\ text' = << >>
            /\ IF constructorThrows(cap, ks, ps)
               THEN /\ phase' = "failed"
                    /\ err' = TRUE
                    /\ UNCHANGED <<capacity, keys, priorities, length, hasPoppedElement>>
                    /\ UNCHANGED stepVars
               ELSE /\ err' = FALSE
                    /\ SetThis(copyBatch(cap, ks, ps))
                    /\ pc' = "heapify"
                    /\ loop' = Len(ks) \div 2
                    /\ accessed' = {<<"copy", i + ROOT_INDEX>> : i \in 0..(Len(ks) - 1)}
                    /\ UNCHANGED <<phase, at, held, begun>>

\* the constructor's loop: its test and the call of bubbleDown(i)
HeapifyStep ==
    /\ pc = "heapify" /\ loop >= ROOT_INDEX
    /\ Enter(This, loop, "bubbleDown", {})
    /\ UNCHANGED <<phase, op, arg, ret, text, err, loop, begun>>

HeapifyExit ==
    /\ pc = "heapify" /\ loop < ROOT_INDEX
    /\ pc' = "idle"
    /\ phase' = "ready"
    /\ accessed' = {}
    /\ UNCHANGED <<capacity, keys, priorities, length, hasPoppedElement, op, arg, ret, text, err,
                   at, held, loop, begun>>

BubbleDownStep ==
    /\ pc = "bubbleDown"
    /\ \E it \in {bubbleDownIter(This, at, held[1], held[2])} :
        /\ it.again
        /\ SetThis(it.q)
        /\ at' = it.index
        /\ accessed' = it.touched
        /\ UNCHANGED <<phase, op, arg, ret, text, err, pc, held, loop, begun>>

\* bubbleDown leaves its loop, writes the item, and the caller goes on
BubbleDownExit ==
    /\ pc = "bubbleDown"
    /\ \E it \in {bubbleDownIter(This, at, held[1], held[2])} :
        /\ ~it.again
        /\ \E settled \in {Settle(it.q, at, held)}, touched \in {it.touched \cup {<<"item", at>>}} :
            IF op = "new"
            THEN /\ SetThis(settled)
                 /\ pc' = "heapify"
                 /\ loop' = loop - 1
                 /\ accessed' = touched
                 /\ UNCHANGED <<phase, op, arg, ret, text, err, at, held, begun>>
            ELSE \E cleared \in {[settled EXCEPT !.hasPoppedElement = FALSE]} :
                 /\ UNCHANGED begun
                 /\ IF op = "push"
                    THEN Return([q |-> cleared, ret |-> Undefined, err |-> FALSE], op, arg, touched)
                    ELSE Return(Finish(op, cleared), op, arg,
                                touched \cup FinishReads(op, cleared))

BubbleUpStep ==
    /\ pc = "bubbleUp"
    /\ \E it \in {bubbleUpIter(This, at, held[1], held[2])} :
        /\ it.again
        /\ SetThis(it.q)
        /\ at' = it.index
        /\ accessed' = it.touched
        /\ UNCHANGED <<phase, op, arg, ret, text, err, pc, held, loop, begun>>

BubbleUpExit ==
    /\ pc = "bubbleUp"
    /\ \E it \in {bubbleUpIter(This, at, held[1], held[2])} :
        /\ ~it.again
        /\ UNCHANGED begun
        /\ Return([q |-> Settle(it.q, at, held), ret |-> Undefined, err |-> FALSE], op, arg,
                  it.touched \cup {<<"item", at>>})

StepPush ==
    /\ phase = "ready" /\ pc = "idle"
    /\ \E item \in StepInputs :
        IF length = capacity
        THEN begun' = This /\ Return(push(This, item[1], item[2]), "push", item, {})
        ELSE IF hasPoppedElement
        THEN /\ Begin("push", item)
             /\ Enter([Settle(This, ROOT_INDEX, item) EXCEPT !.length = length + 1],
                      ROOT_INDEX, "bubbleDown", {<<"root", ROOT_INDEX>>})
        ELSE /\ Begin("push", item)
             /\ Enter([Settle(This, length + ROOT_INDEX, item) EXCEPT !.length = length + 1],
                      length + ROOT_INDEX, "bubbleUp", {})

StepPop ==
    /\ phase = "ready" /\ pc = "idle"
    /\ IF length = 0 \/ ~hasPoppedElement
       THEN begun' = This /\ Return(pop(This), "pop", << >>, FinishReads("pop", This))
       ELSE Begin("pop", << >>) /\ Resolve

\* peek, peekPriority and the dump: removePoppedElement, then the read
StepRead(name) ==
    /\ phase = "ready" /\ pc = "idle"
    /\ IF hasPoppedElement
       THEN Begin(name, << >>) /\ Resolve
       ELSE begun' = This /\ Return(Finish(name, This), name, << >>, FinishReads(name, This))

StepPeek == StepRead("peek")

StepPeekPriority == StepRead("peekPriority")

StepDump == StepRead("dump")

StepClear ==
    /\ phase = "ready" /\ pc = "idle"
    /\ begun' = This
    /\ Return(clear(This), "clear", << >>, {})

\* a call in progress goes on: nothing else runs until it has returned
Advance ==
    \/ HeapifyStep \/ HeapifyExit
    \/ BubbleDownStep \/ BubbleDownExit
    \/ BubbleUpStep \/ BubbleUpExit

NextSteps ==
    \/ StepNew \/ StepPush \/ StepPop \/ StepPeek \/ StepPeekPriority \/ StepDump \/ StepClear
    \/ HeapifyStep \/ HeapifyExit
    \/ BubbleDownStep \/ BubbleDownExit
    \/ BubbleUpStep \/ BubbleUpExit

\* every step of a call in progress changes its place: a call that has started is run on
SpecSteps == Init /\ [][NextSteps]_vars /\ WF_<<pc, at>>(Advance)

\* the outcome of a call taken whole
Whole(name, q, args) ==
    CASE name = "push" -> push(q, args[1], args[2])
      [] name = "clear" -> clear(q)
      [] OTHER -> Finish(name, q)

\* C19: a pass of bubbleUp's loop that goes on strictly lowers index and keeps
\* it at or above the root; a pass of bubbleDown's loop that goes on starts
\* below 1 + floor(length / 2) and strictly raises index; the constructor's
\* loop starts at floor(n / 2), calls bubbleDown(i), steps down by one and
\* ends below 1; every call that has not returned returns at last; and it
\* leaves the object, the return value and the error that the call taken
\* whole gives.
EveryCallCompletes ==
    /\ [][/\ (pc = "bubbleUp" /\ pc' = "bubbleUp") => (at' < at /\ at' >= ROOT_INDEX)
          /\ (pc = "bubbleDown" /\ pc' = "bubbleDown") =>
                (at < ROOT_INDEX + (length \div 2) /\ at' > at /\ at' <= length)
          /\ (pc = "idle" /\ pc' = "heapify") => loop' = Len(arg'[2]) \div 2
          /\ (pc = "heapify" /\ pc' = "bubbleDown") => (loop >= ROOT_INDEX /\ at' = loop)
          /\ (pc = "bubbleDown" /\ pc' = "heapify") => loop' = loop - 1
          /\ (pc = "heapify" /\ pc' = "idle") => loop = ROOT_INDEX - 1
         ]_<<pc, at, loop>>
    /\ []((pc = "idle" /\ phase = "ready") =>
             (IF op = "new"
              THEN This = constructor(arg[1], arg[2], arg[3]) /\ ~err
              ELSE \A whole \in {Whole(op, begun, arg)} :
                       /\ This = whole.q /\ err = whole.err
                       /\ IF op = "dump" THEN ~err => text = whole.ret
                          ELSE ret = whole.ret))
    /\ ((pc # "idle") ~> (pc = "idle"))

\* the constructor's loop ran from 2 down to 1 and its last bubbleDown went one level down
EveryCallCompletesWitness ==
    /\ pc = "idle" /\ phase = "ready" /\ op = "new" /\ ~err
    /\ arg[3] = <<1, 1, 0, 0>> /\ LayoutIs(<<0, 1, 0, 1>>)
    /\ at = 2 /\ loop = 0

\* C20: between calls a set pending-deletion flag implies length < capacity;
\* every slot a step reads or writes lies in 1..capacity; a child read in
\* bubbleDown lies at or below length; and the slot read to resolve a pending
\* deletion is slot length + 1.
IndexSafety ==
    [][/\ (pc' = "idle" /\ hasPoppedElement') => length' < capacity'
       /\ \A a \in accessed' :
             /\ a[2] \in 1..capacity'
             /\ a[2] # 0
             /\ a[1] = "child" => a[2] <= length
             /\ a[1] = "last" => (a[2] = length + ROOT_INDEX /\ hasPoppedElement)
      ]_vars

\* a full queue: the deletion pending before the push was resolved by reading
\* the slots up to capacity
IndexSafetyWitness ==
    /\ pc = "bubbleDown" /\ op = "pop" /\ hasPoppedElement
    /\ length = capacity - 1 /\ capacity = StepCapacity
    /\ <<"last", capacity>> \in accessed

\* ------------------------------------------------------- the abstract bag
\* the live pairs of q together with those of r
LivePairs(q, r) ==
    {PairAt(q, i) : i \in LivePositions(q)} \cup {PairAt(r, i) : i \in LivePositions(r)}

\* C21: the multiset of live pairs, read at positions 1..length or, with a
\* deletion pending, 2..length + 1, follows the reference multiset step by
\* step: a construction makes it the batch as stored; a push that does not
\* throw adds one occurrence of the pair as stored and changes no other count;
\* a pop of a non-empty queue removes one occurrence of the pair whose key it
\* returns and whose priority is minimal, and changes no other count; clear
\* empties it; peek, peekPriority, the dump, a push that throws and a pop of an
\* empty queue leave every count as it was.
BagRefinement ==
    [][IF op' = "new"
       THEN ~err' => LiveBag(ThisNext) = BatchBag(arg'[2], arg'[3])
       ELSE IF op' = "clear"
       THEN LivePositions(ThisNext) = {}
       ELSE \A added \in {IF op' = "push" /\ ~err'
                          THEN {<<arg'[1] % Width, arg'[2] % Width>>} ELSE {}},
               removed \in {IF op' = "pop" /\ length > 0
                            THEN {PairAt(ThisNext, ROOT_INDEX)} ELSE {}} :
                /\ \A pair \in LivePairs(This, ThisNext) \cup added \cup removed :
                      CountLive(ThisNext, PairAt, pair) =
                          CountLive(This, PairAt, pair)
                              + (IF pair \in added THEN 1 ELSE 0)
                              - (IF pair \in removed THEN 1 ELSE 0)
                /\ \A pair \in removed :
                      /\ pair[1] = ret'
                      /\ IsMinLive(This, pair[2])
                /\ (op' = "pop" /\ length = 0) => ret' = Undefined
      ]_vars

\* two pops in a row: the second resolved the first and left one pair live at position 2
BagRefinementWitness ==
    /\ op = "pop" /\ ret = 0 /\ hasPoppedElement /\ length = 1 /\ capacity = 3
    /\ PairAt(This, ROOT_INDEX) = <<0, 1>> /\ PairAt(This, 2) = <<1, 1>> /\ PairAt(This, 3) = <<1, 1>>

====
